---- MODULE Spec2Model ----
(***************************************************************************)
(* Model of download_sample_images.py: the sequential fetch -> package ->  *)
(* cleanup run of main(), with the environment (network, filesystem, user  *)
(* interruption) choosing the outcome of every I/O call.                   *)
(***************************************************************************)
EXTENDS Integers, Sequences, FiniteSets, TLC

\* Number of records of the EMPLOYEES table that the model iterates over.
NumEmployees == 3

\* The EMPLOYEES table (id, name, url) of the source.
AllEmployees ==
  << [id |-> "24EMP001", name |-> "John Smith",
      url |-> "https://images.unsplash.com/photo-1560250097-0b93528c311a?w=800&h=800&fit=crop&q=80"],
     [id |-> "24EMP002", name |-> "Sarah Johnson",
      url |-> "https://images.unsplash.com/photo-1573496359142-b8d87734a5a2?w=800&h=800&fit=crop&q=80"],
     [id |-> "24EMP003", name |-> "Michael Brown",
      url |-> "https://images.unsplash.com/photo-1519085360753-af0119f7cbe7?w=800&h=800&fit=crop&q=80"],
     [id |-> "24EMP004", name |-> "Emily Davis",
      url |-> "https://images.unsplash.com/photo-1580489944761-15a19d654956?w=800&h=800&fit=crop&q=80"],
     [id |-> "15EMP005", name |-> "David Wilson",
      url |-> "https://images.unsplash.com/photo-1472099645785-5658abf4ff4e?w=800&h=800&fit=crop&q=80"],
     [id |-> "15EMP006", name |-> "Lisa Anderson",
      url |-> "https://images.unsplash.com/photo-1607746882042-944635dfe10e?w=800&h=800&fit=crop&q=80"],
     [id |-> "22EMP007", name |-> "James Martinez",
      url |-> "https://images.unsplash.com/photo-1507003211169-0a1dd7228f2d?w=800&h=800&fit=crop&q=80"],
     [id |-> "22EMP008", name |-> "Jennifer Taylor",
      url |-> "https://images.unsplash.com/photo-1438761681033-6461ffad8d80?w=800&h=800&fit=crop&q=80"],
     [id |-> "23EMP009", name |-> "Robert Lee",
      url |-> "https://images.unsplash.com/photo-1500648767791-00dcc994a43e?w=800&h=800&fit=crop&q=80"],
     [id |-> "23EMP010", name |-> "Mary White",
      url |-> "https://images.unsplash.com/photo-1544005313-94ddf0286df2?w=800&h=800&fit=crop&q=80"] >>

\* The records the run iterates over: the first NumEmployees of the table.
EMPLOYEES == SubSeq(AllEmployees, 1, NumEmployees)

\* temp_dir = Path('temp_employee_photos'): a path is its sequence of components.
temp_dir == << "temp_employee_photos" >>

\* zip_filename = 'employee_photos.zip'
zip_filename == << "employee_photos.zip" >>

\* filename = f"{emp_id}.jpg"
Filename(emp_id) == emp_id \o ".jpg"

\* filepath = temp_dir / filename
Filepath(emp_id) == Append(temp_dir, Filename(emp_id))

\* Path.name: the last component of a path.
PathName(path) == path[Len(path)]

\* A file that is in the scratch directory before the run and belongs to no record.
ForeignFile == "notes.txt"

\* The file names the scratch directory can hold.
FileNames == { Filename(EMPLOYEES[k].id) : k \in 1..Len(EMPLOYEES) } \cup { ForeignFile }

\* Files that may be left in the scratch directory by an earlier run.
StaleCandidates == { ForeignFile, Filename(EMPLOYEES[1].id) }

VARIABLES
  pc,               \* position of the single thread of control
  i,                \* index of the record of the for loop of download_images
  zi,               \* index of the file of the for loop of create_zip
  dirExists,        \* the scratch directory exists
  files,            \* scratch directory: file name -> "absent" | "stale" | "partial" | "full"
  downloaded_files, \* the list download_images accumulates and returns
  archive,          \* employee_photos.zip: [exists, entries]
  log,              \* what was printed
  outcome,          \* how main() ended
  attempted,        \* ids whose try block was entered, in order
  saved,            \* ids whose body was written completely
  interrupted       \* a KeyboardInterrupt was delivered

vars == << pc, i, zi, dirExists, files, downloaded_files, archive, log, outcome,
           attempted, saved, interrupted >>

FetchPcs == { "urlopen", "openfile", "write", "append" }
PackagePcs == { "zipopen", "zipwrite", "zipclose" }
CleanupPcs == { "cleanup", "unlink", "rmdir" }
PhasePcs == { "mkdir", "returned" } \cup FetchPcs \cup PackagePcs \cup CleanupPcs

NoArchive == [exists |-> FALSE, entries |-> << >>]
OldArchive == [exists |-> TRUE, entries |-> << << "old.jpg" >> >>]

Init ==
  /\ pc = "mkdir"
  /\ i = 1
  /\ zi = 1
  /\ dirExists \in BOOLEAN
  /\ files \in [FileNames -> {"absent", "stale"}]
  /\ \A f \in FileNames : files[f] = "stale" => (dirExists /\ f \in StaleCandidates)
  /\ downloaded_files = << >>
  /\ archive \in { NoArchive, OldArchive }
  /\ log = << >>
  /\ outcome = "running"
  /\ attempted = << >>
  /\ saved = {}
  /\ interrupted = FALSE

\* main(): except Exception as e: print('An error occurred')
TopLevelError ==
  /\ pc' = "done"
  /\ outcome' = "error"
  /\ log' = Append(log, << "error_occurred" >>)

\* Variant: the loop stops one record early.
NextRecordSkipsLast(k) == IF k + 1 < Len(EMPLOYEES) THEN "urlopen" ELSE "returned"

\* The for statement of download_images: next record, or return to main.
NextRecord(k) == IF k + 1 <= Len(EMPLOYEES) THEN "urlopen" ELSE "returned"

\* The pc at which the loop over EMPLOYEES starts (an empty table returns at once).
LoopEntry == IF Len(EMPLOYEES) >= 1 THEN "urlopen" ELSE "returned"

\* download_images(): temp_dir.mkdir(exist_ok=True), banner.
Mkdir(ok) ==
  /\ pc = "mkdir"
  /\ IF ok
       THEN /\ dirExists' = TRUE
            /\ pc' = LoopEntry
            /\ log' = Append(log, << "downloading_banner" >>)
            /\ outcome' = outcome
       ELSE /\ ~dirExists
            /\ dirExists' = dirExists
            /\ TopLevelError
  /\ UNCHANGED << i, zi, files, downloaded_files, archive, attempted, saved, interrupted >>

\* except Exception as e inside the loop: print the error, go on with the next record.
FetchFailed(emp) ==
  /\ log' = log \o << << "downloading", emp.id >>, << "error_downloading", emp.name >> >>
  /\ i' = i + 1
  /\ pc' = NextRecord(i)

\* try: print Downloading; urllib.request.urlopen(req)
UrlOpen(ok) ==
  /\ pc = "urlopen"
  /\ attempted' = Append(attempted, EMPLOYEES[i].id)
  /\ IF ok
       THEN /\ pc' = "openfile"
            /\ log' = Append(log, << "downloading", EMPLOYEES[i].id >>)
            /\ i' = i
       ELSE FetchFailed(EMPLOYEES[i])
  /\ UNCHANGED << zi, dirExists, files, downloaded_files, archive, outcome, saved, interrupted >>

\* Variant: the handler leaves the loop instead of going on with the next record.
FetchFailedLateBreaks(emp) ==
  /\ log' = Append(log, << "error_downloading", emp.name >>)
  /\ i' = Len(EMPLOYEES) + 1
  /\ pc' = "returned"

\* except Exception after the Downloading line was already printed.
FetchFailedLate(emp) ==
  /\ log' = Append(log, << "error_downloading", emp.name >>)
  /\ i' = i + 1
  /\ pc' = NextRecord(i)

\* with open(filepath, 'wb') as out_file: creates or truncates the file.
OpenFile(ok) ==
  /\ pc = "openfile"
  /\ IF ok
       THEN /\ files' = [files EXCEPT ![PathName(Filepath(EMPLOYEES[i].id))] = "partial"]
            /\ pc' = "write"
            /\ UNCHANGED << i, log >>
       ELSE /\ files' = files
            /\ FetchFailedLate(EMPLOYEES[i])
  /\ UNCHANGED << zi, dirExists, downloaded_files, archive, outcome, attempted, saved, interrupted >>

\* Variant: the append to downloaded_files is reached also when the write failed.
WriteBodyAlwaysAppends(ok) ==
  /\ pc = "write"
  /\ files' = [files EXCEPT ![PathName(Filepath(EMPLOYEES[i].id))] =
                                IF ok THEN "full" ELSE "partial"]
  /\ saved' = IF ok THEN saved \cup { EMPLOYEES[i].id } ELSE saved
  /\ pc' = "append"
  /\ UNCHANGED << i, log >>
  /\ UNCHANGED << zi, dirExists, downloaded_files, archive, outcome, attempted, interrupted >>

\* out_file.write(response.read()), and leaving both with blocks.
WriteBody(ok) ==
  /\ pc = "write"
  /\ IF ok
       THEN /\ files' = [files EXCEPT ![PathName(Filepath(EMPLOYEES[i].id))] = "full"]
            /\ saved' = saved \cup { EMPLOYEES[i].id }
            /\ pc' = "append"
            /\ UNCHANGED << i, log >>
       ELSE /\ UNCHANGED << files, saved >>
            /\ FetchFailedLate(EMPLOYEES[i])
  /\ UNCHANGED << zi, dirExists, downloaded_files, archive, outcome, attempted, interrupted >>

\* downloaded_files.append(filepath); print Saved as
AppendDownloaded ==
  /\ pc = "append"
  /\ downloaded_files' = Append(downloaded_files, Filepath(EMPLOYEES[i].id))
  /\ log' = Append(log, << "saved", Filename(EMPLOYEES[i].id) >>)
  /\ i' = i + 1
  /\ pc' = NextRecord(i)
  /\ UNCHANGED << zi, dirExists, files, archive, outcome, attempted, saved, interrupted >>

\* Variant: main has no early return and always goes on to create_zip.
MainCheckNoReturn ==
  /\ pc = "returned"
  /\ pc' = "zipopen"
  /\ UNCHANGED << log, outcome >>
  /\ UNCHANGED << i, zi, dirExists, files, downloaded_files, archive, attempted, saved, interrupted >>

\* main(): if not downloaded_files: print Failed; return -- else create_zip
MainCheck ==
  /\ pc = "returned"
  /\ IF downloaded_files = << >>
       THEN /\ log' = Append(log, << "failed_any" >>)
            /\ outcome' = "no_images"
            /\ pc' = "done"
       ELSE /\ pc' = "zipopen"
            /\ UNCHANGED << log, outcome >>
  /\ UNCHANGED << i, zi, dirExists, files, downloaded_files, archive, attempted, saved, interrupted >>

\* create_zip(): if not downloaded_files: return -- else ZipFile(zip_filename, 'w')
ZipOpen(ok) ==
  /\ pc = "zipopen"
  /\ IF downloaded_files = << >>
       THEN /\ log' = Append(log, << "no_images_zip" >>)
            /\ pc' = "cleanup"
            /\ UNCHANGED << archive, outcome >>
       ELSE IF ok
         THEN /\ archive' = [exists |-> TRUE, entries |-> << >>]
              /\ log' = Append(log, << "creating_zip", PathName(zip_filename) >>)
              /\ pc' = "zipwrite"
              /\ outcome' = outcome
         ELSE /\ archive' = archive
              /\ TopLevelError
  /\ zi' = 1
  /\ UNCHANGED << i, dirExists, files, downloaded_files, attempted, saved, interrupted >>

\* Variant: the entry keeps the scratch directory in its name.
ArcnameKeepsDir(filepath) == filepath

\* zipf.write(filepath, filepath.name): the entry name given to the archive.
Arcname(filepath) == << PathName(filepath) >>

\* for filepath in downloaded_files: zipf.write(filepath, filepath.name); print Added
ZipWrite(ok) ==
  /\ pc = "zipwrite"
  /\ zi <= Len(downloaded_files)
  /\ IF ok
       THEN /\ archive' = [archive EXCEPT !.entries = Append(@, Arcname(downloaded_files[zi]))]
            /\ log' = Append(log, << "added", PathName(downloaded_files[zi]) >>)
            /\ zi' = zi + 1
            /\ pc' = IF zi + 1 <= Len(downloaded_files) THEN "zipwrite" ELSE "zipclose"
            /\ outcome' = outcome
       ELSE /\ UNCHANGED << archive, zi >>
            /\ TopLevelError
  /\ UNCHANGED << i, dirExists, files, downloaded_files, attempted, saved, interrupted >>

\* End of the with block of create_zip, then the three summary lines.
ZipClose ==
  /\ pc = "zipclose"
  /\ log' = log \o << << "zip_created" >>, << "location", PathName(zip_filename) >>,
                       << "total_images", Len(downloaded_files), Len(EMPLOYEES) >> >>
  /\ pc' = "cleanup"
  /\ UNCHANGED << i, zi, dirExists, files, downloaded_files, archive, outcome,
                  attempted, saved, interrupted >>

\* temp_dir.glob('*'): the files that are in the scratch directory.
Glob == { f \in FileNames : files[f] # "absent" }

\* cleanup(): print Cleaning up; the for loop over glob starts.
CleanupStart ==
  /\ pc = "cleanup"
  /\ log' = Append(log, << "cleanup_start" >>)
  /\ pc' = IF Glob # {} THEN "unlink" ELSE "rmdir"
  /\ UNCHANGED << i, zi, dirExists, files, downloaded_files, archive, outcome,
                  attempted, saved, interrupted >>

\* Variant: cleanup has no handler of its own, the error reaches main.
CleanupWarningPropagates == TopLevelError

\* cleanup(): except Exception as e: print Cleanup warning; main goes on.
CleanupWarning ==
  /\ log' = Append(log, << "cleanup_warning" >>)
  /\ pc' = "final"
  /\ outcome' = outcome

\* for file in temp_dir.glob('*'): file.unlink()
Unlink(f, ok) ==
  /\ pc = "unlink"
  /\ f \in Glob
  /\ IF ok
       THEN /\ files' = [files EXCEPT ![f] = "absent"]
            /\ pc' = IF Glob \ {f} # {} THEN "unlink" ELSE "rmdir"
            /\ UNCHANGED << log, outcome >>
       ELSE /\ files' = files
            /\ CleanupWarning
  /\ UNCHANGED << i, zi, dirExists, downloaded_files, archive, attempted, saved, interrupted >>

\* temp_dir.rmdir(); print Cleanup complete
Rmdir(ok) ==
  /\ pc = "rmdir"
  /\ IF ok
       THEN /\ dirExists' = FALSE
            /\ log' = Append(log, << "cleanup_complete" >>)
            /\ pc' = "final"
            /\ outcome' = outcome
       ELSE /\ dirExists' = dirExists
            /\ CleanupWarning
  /\ UNCHANGED << i, zi, files, downloaded_files, archive, attempted, saved, interrupted >>

\* main(): the final instructions; main returns.
Final ==
  /\ pc = "final"
  /\ log' = Append(log, << "success" >>)
  /\ outcome' = "success"
  /\ pc' = "done"
  /\ UNCHANGED << i, zi, dirExists, files, downloaded_files, archive, attempted, saved, interrupted >>

\* Variant: the handler inside the loop is a bare except and takes the interruption
\* of a running download for a failure of that record.
InterruptSwallowed ==
  /\ pc \in PhasePcs
  /\ interrupted' = TRUE
  /\ IF pc \in { "openfile", "write" }
       THEN /\ FetchFailedLate(EMPLOYEES[i])
            /\ outcome' = outcome
       ELSE /\ log' = Append(log, << "cancelled" >>)
            /\ outcome' = "cancelled"
            /\ pc' = "done"
            /\ i' = i
  /\ UNCHANGED << zi, dirExists, files, downloaded_files, archive, attempted, saved >>

\* main(): except KeyboardInterrupt: print Download cancelled by user.
\* KeyboardInterrupt is not an Exception: the handlers of download_images and
\* cleanup let it through, and the with blocks only close what is open.
Interrupt ==
  /\ pc \in PhasePcs
  /\ log' = Append(log, << "cancelled" >>)
  /\ outcome' = "cancelled"
  /\ pc' = "done"
  /\ interrupted' = TRUE
  /\ UNCHANGED << i, zi, dirExists, files, downloaded_files, archive, attempted, saved >>

Next ==
  \/ \E ok \in BOOLEAN : Mkdir(ok)
  \/ \E ok \in BOOLEAN : UrlOpen(ok)
  \/ \E ok \in BOOLEAN : OpenFile(ok)
  \/ \E ok \in BOOLEAN : WriteBody(ok)
  \/ AppendDownloaded
  \/ MainCheck
  \/ \E ok \in BOOLEAN : ZipOpen(ok)
  \/ \E ok \in BOOLEAN : ZipWrite(ok)
  \/ ZipClose
  \/ CleanupStart
  \/ \E f \in FileNames, ok \in BOOLEAN : Unlink(f, ok)
  \/ \E ok \in BOOLEAN : Rmdir(ok)
  \/ Final
  \/ Interrupt

Spec == Init /\ [][Next]_vars

------------------------------------------------------------------------------
Range(s) == { s[k] : k \in 1..Len(s) }

Logged(m) == m \in Range(log)

Ids == { EMPLOYEES[k].id : k \in 1..Len(EMPLOYEES) }

\* The for loop of download_images ran past its last record.
FetchEnded == i > Len(EMPLOYEES)

\* create_zip left its with block: the archive is complete.
ArchiveProduced == Logged(<< "zip_created" >>)

\* C1: whenever create_zip has produced the archive, its entries are exactly
\* the names <id>.jpg of the records saved in this run, one entry each, and
\* every entry name is a single path component (no directory).
C1_ArchiveEntries ==
  ArchiveProduced =>
    /\ archive.exists
    /\ Range(archive.entries) = { << Filename(id) >> : id \in saved }
    /\ Len(archive.entries) = Cardinality(saved)
    /\ \A e \in Range(archive.entries) : Len(e) = 1

\* The archive is produced in a run where one record failed after leaving a
\* partial file, another succeeded, and a foreign file sits in the scratch directory.
C1_Witness ==
  /\ ArchiveProduced
  /\ pc = "cleanup"
  /\ files[ForeignFile] = "stale"
  /\ \E a \in Ids, b \in Ids :
       /\ a \in saved
       /\ b \notin saved
       /\ files[Filename(b)] \in { "partial", "stale" }

\* C2: after a run that completed with at least one record saved, the scratch
\* directory does not exist.
C2_ScratchGone ==
  (pc = "done" /\ outcome # "cancelled" /\ downloaded_files # << >>) => ~dirExists

\* C3: every run whose fetch phase ran to its end starts the cleanup phase.
C3_CleanupAlwaysRuns ==
  (pc = "done" /\ FetchEnded /\ outcome # "cancelled") => Logged(<< "cleanup_start" >>)

\* C4: when create_zip fails with an error, cleanup still runs and the scratch
\* files of the downloaded records are removed.
C4_CleanupAfterZipError ==
  (pc = "done" /\ outcome = "error" /\ downloaded_files # << >>) =>
    /\ Logged(<< "cleanup_start" >>)
    /\ \A p \in Range(downloaded_files) : files[PathName(p)] = "absent"

\* C5: a failing record never ends the loop: the step that reports the failure
\* goes on with the next record, and once the loop has ended every record was
\* attempted and every saved record is in downloaded_files.
C5_FailureDoesNotAbort ==
  /\ [](FetchEnded =>
          /\ Range(attempted) = Ids
          /\ \A id \in saved : Filepath(id) \in Range(downloaded_files))
  /\ [][ (Len(log') > Len(log) /\ log'[Len(log')][1] = "error_downloading") =>
           /\ pc' = NextRecord(i)
           /\ i' = i + 1
           /\ outcome' = "running"
           /\ downloaded_files' = downloaded_files ]_vars

\* The first record failed, the last one was saved and returned.
C5_Witness ==
  /\ FetchEnded
  /\ Len(EMPLOYEES) >= 2
  /\ EMPLOYEES[1].id \notin saved
  /\ Logged(<< "error_downloading", EMPLOYEES[1].name >>)
  /\ Filepath(EMPLOYEES[Len(EMPLOYEES)].id) \in Range(downloaded_files)

\* C6: while no record has succeeded the archive is never written, and a run
\* whose fetch phase ended with no success prints the failure and returns
\* normally from main without reaching the top-level error handler.
C6_ZeroSuccess ==
  /\ [][ downloaded_files' = << >> => archive' = archive ]_vars
  /\ []((pc = "done" /\ FetchEnded /\ downloaded_files = << >> /\ ~interrupted) =>
          /\ outcome = "no_images"
          /\ log[Len(log)] = << "failed_any" >>
          /\ ~Logged(<< "error_occurred" >>)
          /\ ~Logged(<< "success" >>))

\* All records failed; an archive of an earlier run is still what it was.
C6_Witness ==
  /\ pc = "done"
  /\ FetchEnded
  /\ downloaded_files = << >>
  /\ outcome = "no_images"
  /\ archive = OldArchive

\* C7: a step of cleanup in which a deletion fails prints the warning, leaves
\* the archive as it is and hands control back to main, and a run that printed
\* the warning ends with the success message.
C7_CleanupFailureIsWarning ==
  /\ [][ (pc \in { "unlink", "rmdir" } /\ ~interrupted'
            /\ files' = files /\ dirExists' = dirExists) =>
           /\ log' = Append(log, << "cleanup_warning" >>)
           /\ pc' = "final"
           /\ archive' = archive
           /\ outcome' = "running" ]_vars
  /\ []((pc = "done" /\ Logged(<< "cleanup_warning" >>)) =>
          /\ outcome = "success"
          /\ ~Logged(<< "error_occurred" >>)
          /\ Range(archive.entries) = { << Filename(id) >> : id \in saved })

\* A deletion failed, the scratch directory is still there, the run ended normally.
C7_Witness ==
  /\ pc = "done"
  /\ Logged(<< "cleanup_warning" >>)
  /\ outcome = "success"
  /\ dirExists
  /\ archive.exists

\* C8: once an interruption was delivered the run is over: it was reported with
\* the cancel message and not as an error, nothing changes afterwards, and the
\* interruption itself changes neither the scratch directory nor the archive
\* nor the list of downloads.
C8_InterruptStopsRun ==
  /\ [](interrupted =>
          /\ pc = "done"
          /\ outcome = "cancelled"
          /\ log[Len(log)] = << "cancelled" >>
          /\ ~Logged(<< "error_occurred" >>)
          /\ ~Logged(<< "success" >>))
  /\ [][ interrupted' =>
           UNCHANGED << files, dirExists, archive, downloaded_files, attempted, saved >> ]_vars

\* Interrupted during packaging: the archive holds fewer entries than there
\* are downloads, and the scratch files are still in place.
C8_Witness ==
  /\ interrupted
  /\ outcome = "cancelled"
  /\ archive.exists
  /\ archive # OldArchive
  /\ Len(archive.entries) >= 1
  /\ Len(archive.entries) < Len(downloaded_files)
  /\ \A p \in Range(downloaded_files) : files[PathName(p)] = "full"

\* C9: downloaded_files never holds a record that was not saved completely,
\* holds exactly the saved records when the fetch phase has ended, and the
\* archive never gets an entry for a record that failed.
C9_OnlySavedReturned ==
  /\ Range(downloaded_files) \subseteq { Filepath(id) : id \in saved }
  /\ FetchEnded => Range(downloaded_files) = { Filepath(id) : id \in saved }
  /\ \A id \in Ids \ saved : << Filename(id) >> \notin Range(archive.entries)

\* A record failed while its body was written, its partial file is in the
\* scratch directory, and the archive was produced without it.
C9_Witness ==
  /\ ArchiveProduced
  /\ \E id \in Ids \ saved :
       /\ files[Filename(id)] = "partial"
       /\ Filepath(id) \notin Range(downloaded_files)

\* attempted is the table's ids in table order, each at most once.
InListOrder ==
  /\ Len(attempted) <= Len(EMPLOYEES)
  /\ \A k \in 1..Len(attempted) : attempted[k] = EMPLOYEES[k].id
  /\ Len(attempted) \in { i - 1, i }

\* C10: records are attempted once each in table order; packaging starts only
\* after the last attempt and with a non-empty list; cleanup starts only after
\* every download was added to the archive; downloaded_files only grows by
\* appending, and only during the fetch phase.
C10_Sequential ==
  /\ [](InListOrder)
  /\ [](pc \in PackagePcs \cup CleanupPcs \cup { "final" } =>
          /\ FetchEnded
          /\ Len(attempted) = Len(EMPLOYEES)
          /\ downloaded_files # << >>)
  /\ [](pc \in CleanupPcs \cup { "final" } =>
          /\ ArchiveProduced
          /\ Len(archive.entries) = Len(downloaded_files))
  /\ [][ \/ downloaded_files' = downloaded_files
         \/ /\ pc = "append"
            /\ \E id \in Ids : downloaded_files' = Append(downloaded_files, Filepath(id)) ]_vars

\* Cleanup is running after three phases in order, with a failed record in between.
C10_Witness ==
  /\ pc = "rmdir"
  /\ Len(attempted) = Len(EMPLOYEES)
  /\ Len(downloaded_files) >= 1
  /\ Len(downloaded_files) < Len(EMPLOYEES)
  /\ Len(archive.entries) = Len(downloaded_files)
====
